---- MODULE Spec2Model ----
(***************************************************************************)
(* edgelet-utils ser_de.rs: string_or_struct, a serde deserialize_with     *)
(* helper that decodes a field given either as a string (handed to T's     *)
(* FromStr) or as a map (handed to T's Deserialize).                       *)
(*                                                                         *)
(* T is Options and the enclosing document is Container, the two types of  *)
(* the module's tests.  JSON text is a sequence of one-character strings,  *)
(* a decoded JSON tree is a record [t, s, n, e].                           *)
(***************************************************************************)
EXTENDS Integers, Sequences, FiniteSets, TLC

(***************************************************************************)
(* JSON trees (the value the framework hands to a visitor).                *)
(***************************************************************************)
Null == [t |-> "null", s |-> <<>>, n |-> 0, e |-> <<>>]

Bool(b) == [t |-> "bool", s |-> <<>>, n |-> IF b THEN 1 ELSE 0, e |-> <<>>]

Num(k) == [t |-> "num", s |-> <<>>, n |-> k, e |-> <<>>]

Str(cs) == [t |-> "str", s |-> cs, n |-> 0, e |-> <<>>]

Arr(items) == [t |-> "seq", s |-> <<>>, n |-> 0, e |-> items]

Obj(entries) == [t |-> "map", s |-> <<>>, n |-> 0, e |-> entries]

Entry(key, val) == [k |-> key, v |-> val]

(***************************************************************************)
(* Result<T, E>.                                                           *)
(***************************************************************************)
Ok(v) == <<"Ok", v>>

Err(e) == <<"Err", e>>

IsOk(r) == r[1] = "Ok"

IsErr(r) == r[1] = "Err"

Pending == <<"Pending">>

(***************************************************************************)
(* serde_json::Error: an error code and the text its Display prints        *)
(* (message and column; every text here is on line 1).                     *)
(***************************************************************************)
JsonError(c, text, column) == [code |-> c, msg |-> [text |-> text, col |-> column]]

Display(err) == err.msg

\* <serde_json::Error as de::Error>::custom: keeps the displayed text of its
\* argument as an ErrorCode::Message.
custom(m) == [code |-> "Message", msg |-> m]

unexpected(v) ==
    CASE v.t = "null" -> <<"null">>
      [] v.t = "bool" -> <<"boolean">>
      [] v.t = "num"  -> <<"integer">>
      [] v.t = "str"  -> <<"string ">> \o v.s
      [] v.t = "seq"  -> <<"sequence">>
      [] v.t = "map"  -> <<"map">>

\* de::Error::invalid_type(unexp, &exp): "invalid type: {unexp}, expected {exp}"
invalid_type(v, exp) ==
    custom([text |-> <<"invalid type: ">> \o unexpected(v) \o <<", expected ", exp>>,
            col |-> 0])

missing_field(f) == custom([text |-> <<"missing field ", f>>, col |-> 0])

duplicate_field(f) == custom([text |-> <<"duplicate field ", f>>, col |-> 0])

invalid_length(len, exp) == custom([text |-> <<"invalid length, expected ", exp>>, col |-> len])

(***************************************************************************)
(* serde_json text: serializer (Value::to_string) and parser.              *)
(***************************************************************************)
Digits == <<"0", "1", "2", "3", "4", "5", "6", "7", "8", "9">>

IsDigit(c) == \E d \in 1..10 : Digits[d] = c

DigitVal(c) == (CHOOSE d \in 1..10 : Digits[d] = c) - 1

RECURSIVE NumToText(_)
NumToText(k) == IF k < 10 THEN <<Digits[k + 1]>>
                ELSE Append(NumToText(k \div 10), Digits[(k % 10) + 1])

RECURSIVE Escape(_)
Escape(cs) ==
    IF cs = <<>> THEN <<>>
    ELSE (IF Head(cs) \in {"\"", "\\"} THEN <<"\\", Head(cs)>> ELSE <<Head(cs)>>)
         \o Escape(Tail(cs))

Quote(cs) == <<"\"">> \o Escape(cs) \o <<"\"">>

RECURSIVE Serialize(_), SerializeItems(_), SerializeEntries(_)
Serialize(v) ==
    CASE v.t = "null" -> <<"n", "u", "l", "l">>
      [] v.t = "bool" -> IF v.n = 1 THEN <<"t", "r", "u", "e">>
                         ELSE <<"f", "a", "l", "s", "e">>
      [] v.t = "num"  -> NumToText(v.n)
      [] v.t = "str"  -> Quote(v.s)
      [] v.t = "seq"  -> <<"[">> \o SerializeItems(v.e) \o <<"]">>
      [] v.t = "map"  -> <<"{">> \o SerializeEntries(v.e) \o <<"}">>

SerializeItems(items) ==
    IF items = <<>> THEN <<>>
    ELSE Serialize(Head(items))
         \o (IF Len(items) > 1 THEN <<",">> ELSE <<>>)
         \o SerializeItems(Tail(items))

SerializeEntries(entries) ==
    IF entries = <<>> THEN <<>>
    ELSE Quote(Head(entries).k) \o <<":">> \o Serialize(Head(entries).v)
         \o (IF Len(entries) > 1 THEN <<",">> ELSE <<>>)
         \o SerializeEntries(Tail(entries))

\* Parser results: the tree and the index of the next unread character, or
\* the error.
POk(v, next) == [ok |-> TRUE, v |-> v, pos |-> next, err |-> JsonError("None", <<>>, 0)]

PErr(c, text, column) == [ok |-> FALSE, v |-> Null, pos |-> column, err |-> JsonError(c, text, column)]

RECURSIVE SkipWs(_, _)
SkipWs(s, i) == IF i <= Len(s) /\ s[i] = " " THEN SkipWs(s, i + 1) ELSE i

RECURSIVE ParseStrBody(_, _, _)
ParseStrBody(s, i, acc) ==
    IF i > Len(s) THEN PErr("EofWhileParsingString", <<"EOF while parsing a string">>, i)
    ELSE IF s[i] = "\"" THEN POk(Str(acc), i + 1)
    ELSE IF s[i] = "\\" THEN
        IF i + 1 > Len(s)
        THEN PErr("EofWhileParsingString", <<"EOF while parsing a string">>, i + 1)
        ELSE IF s[i + 1] \in {"\"", "\\"}
        THEN ParseStrBody(s, i + 2, Append(acc, s[i + 1]))
        ELSE PErr("InvalidEscape", <<"invalid escape">>, i + 1)
    ELSE ParseStrBody(s, i + 1, Append(acc, s[i]))

RECURSIVE ParseNum(_, _, _)
ParseNum(s, i, acc) ==
    IF i <= Len(s) /\ IsDigit(s[i]) THEN ParseNum(s, i + 1, 10 * acc + DigitVal(s[i]))
    ELSE POk(Num(acc), i)

RECURSIVE ParseIdent(_, _, _, _)
ParseIdent(s, i, rest, v) ==
    IF rest = <<>> THEN POk(v, i)
    ELSE IF i > Len(s) THEN PErr("EofWhileParsingValue", <<"EOF while parsing a value">>, i)
    ELSE IF s[i] = Head(rest) THEN ParseIdent(s, i + 1, Tail(rest), v)
    ELSE PErr("ExpectedSomeIdent", <<"expected ident">>, i)

\* In the parsers, Bind(p, cont) is cont(p) with p evaluated once.

RECURSIVE ParseValue(_, _), ParseArray(_, _, _), ParseObject(_, _, _)
ParseValue(s, i) ==
    LET Bind(p, cont(_)) == CHOOSE r \in {cont(x) : x \in {p}} : TRUE IN
    Bind(SkipWs(s, i), LAMBDA j :
    IF j > Len(s) THEN PErr("EofWhileParsingValue", <<"EOF while parsing a value">>, j)
    ELSE CASE s[j] = "\"" -> ParseStrBody(s, j + 1, <<>>)
           [] s[j] = "{"  -> ParseObject(s, j + 1, <<>>)
           [] s[j] = "["  -> ParseArray(s, j + 1, <<>>)
           [] s[j] = "n"  -> ParseIdent(s, j + 1, <<"u", "l", "l">>, Null)
           [] s[j] = "t"  -> ParseIdent(s, j + 1, <<"r", "u", "e">>, Bool(TRUE))
           [] s[j] = "f"  -> ParseIdent(s, j + 1, <<"a", "l", "s", "e">>, Bool(FALSE))
           [] IsDigit(s[j]) -> ParseNum(s, j, 0)
           [] OTHER -> PErr("ExpectedSomeValue", <<"expected value">>, j))

ParseArray(s, i, acc) ==
    LET Bind(p, cont(_)) == CHOOSE r \in {cont(x) : x \in {p}} : TRUE IN
    Bind(SkipWs(s, i), LAMBDA j :
    IF j > Len(s) THEN PErr("EofWhileParsingList", <<"EOF while parsing a list">>, j)
    ELSE IF s[j] = "]" THEN POk(Arr(acc), j + 1)
    ELSE IF acc # <<>> /\ s[j] # "," THEN PErr("ExpectedListCommaOrEnd", <<"expected , or ]">>, j)
    ELSE Bind(ParseValue(s, IF acc = <<>> THEN j ELSE j + 1), LAMBDA item :
         IF item.ok THEN ParseArray(s, item.pos, Append(acc, item.v)) ELSE item))

ParseObject(s, i, acc) ==
    LET Bind(p, cont(_)) == CHOOSE r \in {cont(x) : x \in {p}} : TRUE IN
    Bind(SkipWs(s, i), LAMBDA j :
    IF j > Len(s) THEN PErr("EofWhileParsingObject", <<"EOF while parsing an object">>, j)
    ELSE IF s[j] = "}" THEN POk(Obj(acc), j + 1)
    ELSE IF acc # <<>> /\ s[j] # "," THEN PErr("ExpectedObjectCommaOrEnd", <<"expected , or }">>, j)
    ELSE Bind(SkipWs(s, IF acc = <<>> THEN j ELSE j + 1), LAMBDA k :
         IF k > Len(s) THEN PErr("EofWhileParsingValue", <<"EOF while parsing a value">>, k)
         ELSE IF s[k] # "\"" THEN PErr("KeyMustBeAString", <<"key must be a string">>, k)
         ELSE Bind(ParseStrBody(s, k + 1, <<>>), LAMBDA key :
              IF ~key.ok THEN key
              ELSE Bind(SkipWs(s, key.pos), LAMBDA c :
                   IF c > Len(s) THEN PErr("EofWhileParsingObject", <<"EOF while parsing an object">>, c)
                   ELSE IF s[c] # ":" THEN PErr("ExpectedColon", <<"expected :">>, c)
                   ELSE Bind(ParseValue(s, c + 1), LAMBDA val :
                        IF val.ok THEN ParseObject(s, val.pos, Append(acc, Entry(key.v.s, val.v)))
                        ELSE val)))))

\* One JSON value followed by Deserializer::end(): only whitespace may follow.
ParseJson(s) ==
    LET Bind(p, cont(_)) == CHOOSE r \in {cont(x) : x \in {p}} : TRUE IN
    Bind(ParseValue(s, 1), LAMBDA p :
    IF ~p.ok THEN p
    ELSE IF SkipWs(s, p.pos) <= Len(s)
    THEN PErr("TrailingCharacters", <<"trailing characters">>, SkipWs(s, p.pos))
    ELSE p)

(***************************************************************************)
(* serde: deserializers, and the Deserialize impls of the primitive types. *)
(***************************************************************************)
\* Option<X>
None == <<>>

Some(x) == <<x>>

\* serde_json's deserializer positioned on one value of the document.
JsonDeserializer(v) == [kind |-> "json", v |-> v]

\* the entries of a map as a key-indexed collection holds them: for a key
\* that occurs twice only the last entry
RECURSIVE KeepLast(_)
KeepLast(entries) ==
    IF entries = <<>> THEN <<>>
    ELSE IF \E i \in 2..Len(entries) : entries[i].k = Head(entries).k
    THEN KeepLast(Tail(entries))
    ELSE <<Head(entries)>> \o KeepLast(Tail(entries))

\* variant: the entries are first collected into a key-indexed map
MapAccessDeserializer_collected(entries) == [kind |-> "mapaccess", v |-> Obj(KeepLast(entries))]

\* variant: the first entry has been consumed before the map is wrapped
MapAccessDeserializer_afterFirst(entries) ==
    [kind |-> "mapaccess", v |-> Obj(IF entries = <<>> THEN <<>> ELSE Tail(entries))]

\* de::value::MapAccessDeserializer::new(map): a deserializer over the
\* entries of a map that the framework has already started to read.
MapAccessDeserializer(entries) == [kind |-> "mapaccess", v |-> Obj(entries)]

\* Deserializer::deserialize_any, as far as the shape goes: which visit_*
\* method of the visitor is called.  MapAccessDeserializer calls visit_map.
deserialize_any(de) ==
    IF de.kind = "mapaccess" THEN "visit_map"
    ELSE CASE de.v.t = "str"  -> "visit_str"
           [] de.v.t = "map"  -> "visit_map"
           [] de.v.t = "seq"  -> "visit_seq"
           [] de.v.t = "null" -> "visit_unit"
           [] de.v.t = "bool" -> "visit_bool"
           [] de.v.t = "num"  -> "visit_u64"

\* <String as Deserialize>::deserialize
String_deserialize(de) ==
    IF de.v.t = "str" THEN Ok(de.v.s) ELSE Err(invalid_type(de.v, "a string"))

\* <Option<String> as Deserialize>::deserialize
OptionString_deserialize(de) ==
    IF de.v.t = "null" THEN Ok(None)
    ELSE LET r == String_deserialize(de) IN IF IsOk(r) THEN Ok(Some(r[2])) ELSE r

(***************************************************************************)
(* tests::Options { opt1: String, opt2: Option<String> }                   *)
(***************************************************************************)
opt1 == <<"o", "p", "t", "1">>

opt2 == <<"o", "p", "t", "2">>

\* the visit_map of #[derive(Deserialize)]: fields in the order of the map,
\* unknown keys ignored, a repeated key an error, a missing Option None.
RECURSIVE Options_visit_map_loop(_, _, _)
Options_visit_map_loop(entries, f1, f2) ==
    IF entries = <<>> THEN
        IF f1 = None THEN Err(missing_field("opt1"))
        ELSE Ok([opt1 |-> f1[1], opt2 |-> IF f2 = None THEN None ELSE f2[1]])
    ELSE LET en == Head(entries) IN
         CASE en.k = opt1 ->
                IF f1 # None THEN Err(duplicate_field("opt1"))
                ELSE LET r == String_deserialize(JsonDeserializer(en.v)) IN
                     IF IsErr(r) THEN r
                     ELSE Options_visit_map_loop(Tail(entries), Some(r[2]), f2)
           [] en.k = opt2 ->
                IF f2 # None THEN Err(duplicate_field("opt2"))
                ELSE LET r == OptionString_deserialize(JsonDeserializer(en.v)) IN
                     IF IsErr(r) THEN r
                     ELSE Options_visit_map_loop(Tail(entries), f1, Some(r[2]))
           [] OTHER -> Options_visit_map_loop(Tail(entries), f1, f2)

Options_visit_map(entries) == Options_visit_map_loop(entries, None, None)

\* the visit_seq of #[derive(Deserialize)]: the fields by position; serde_json
\* rejects elements left over.
Options_visit_seq(items) ==
    IF Len(items) = 0 THEN Err(invalid_length(0, "struct Options with 2 elements"))
    ELSE LET r1 == String_deserialize(JsonDeserializer(items[1])) IN
         IF IsErr(r1) THEN r1
         ELSE IF Len(items) = 1 THEN Err(invalid_length(1, "struct Options with 2 elements"))
         ELSE LET r2 == OptionString_deserialize(JsonDeserializer(items[2])) IN
              IF IsErr(r2) THEN r2
              ELSE IF Len(items) > 2
              THEN Err(JsonError("TrailingCharacters", <<"trailing characters">>, 0))
              ELSE Ok([opt1 |-> r1[2], opt2 |-> r2[2]])

\* <Options as Deserialize>::deserialize: Deserializer::deserialize_struct
\* with the derived visitor.  serde_json accepts an object or an array;
\* MapAccessDeserializer forwards deserialize_struct to deserialize_any, which
\* calls visit_map.
Options_deserialize(de) ==
    IF deserialize_any(de) = "visit_map" THEN Options_visit_map(de.v.e)
    ELSE IF deserialize_any(de) = "visit_seq" THEN Options_visit_seq(de.v.e)
    ELSE Err(invalid_type(de.v, "struct Options"))

\* <Options as FromStr>::from_str: serde_json::from_str(s), which parses the
\* text, runs Options' Deserialize on it and requires the end of the text.
Options_from_str(s) ==
    LET Bind(p, cont(_)) == CHOOSE r \in {cont(x) : x \in {p}} : TRUE IN
    Bind(ParseJson(s), LAMBDA p :
    IF p.ok THEN Options_deserialize(JsonDeserializer(p.v)) ELSE Err(p.err))

(***************************************************************************)
(* The inputs: the values of the "options" field and the documents.        *)
(***************************************************************************)
val1 == <<"v", "a", "l", "1">>

val2 == <<"v", "a", "l", "2">>

optionsKey == <<"o", "p", "t", "i", "o", "n", "s">>

otherKey == <<"x">>

\* a text that needs escaping when serialized
quoted == <<"a", "\"", "b", "\\">>

BothFields == Obj(<<Entry(opt1, Str(val1)), Entry(opt2, Str(val2))>>)

MapValues ==
    { BothFields,
      Obj(<<Entry(opt1, Str(val1))>>),
      Obj(<<Entry(opt1, Str(val1)), Entry(opt2, Null)>>),
      Obj(<<Entry(opt2, Str(val2)), Entry(opt1, Str(quoted))>>),
      Obj(<<Entry(opt1, Str(val1)), Entry(otherKey, Num(7))>>),
      Obj(<<Entry(opt2, Str(val2))>>),
      Obj(<<Entry(opt1, Num(42))>>),
      Obj(<<Entry(opt1, Str(val1)), Entry(opt1, Str(val2))>>),
      Obj(<<>>) }

NotJson == <<"n", "o", "t", " ", "r", "e", "a", "l", "l", "y", " ", "j", "s", "o", "n",
             " ", "y", "o", "u", " ", "k", "n", "o", "w">>

UpperCaseKey == <<"{", "\"", "O", "P", "T", "1", "\"", ":", "\"", "v", "a", "l", "1", "\"", "}">>

StringTexts ==
    { Serialize(m) : m \in MapValues }
    \cup { <<" ">> \o Serialize(BothFields) \o <<" ">>,
           Serialize(BothFields) \o <<" ", "x">>,
           Serialize(Arr(<<Str(val1), Str(val2)>>)),
           Serialize(Str(val1)),
           Serialize(Num(42)),
           UpperCaseKey,
           NotJson,
           <<>> }

OtherValues == { Num(42), Bool(TRUE), Null, Arr(<<Str(val1), Str(val2)>>), Arr(<<>>) }

FieldValues == MapValues \cup { Str(s) : s \in StringTexts } \cup OtherValues

\* json!({ "options": v }).to_string(), and documents of other shapes
Document(v) == Serialize(Obj(<<Entry(optionsKey, v)>>))

Documents ==
    { Document(v) : v \in FieldValues }
    \cup { Serialize(Obj(<<>>)),
           Serialize(Obj(<<Entry(otherKey, Num(1)), Entry(optionsKey, BothFields)>>)),
           Serialize(Obj(<<Entry(optionsKey, BothFields), Entry(optionsKey, BothFields)>>)),
           Serialize(Obj(<<Entry(optionsKey, Str(NotJson)), Entry(optionsKey, BothFields)>>)),
           Serialize(Arr(<<Str(Serialize(BothFields))>>)),
           Serialize(Arr(<<BothFields, BothFields>>)),
           Serialize(Arr(<<>>)),
           Serialize(Num(42)),
           <<"{">> }

\* the number of top-level decodes of one run
MaxCalls == 3

(***************************************************************************)
(* State.                                                                  *)
(***************************************************************************)
VARIABLES
    doc,         \* the text handed to serde_json::from_str::<Container>
    calls,       \* top-level decodes started so far
    pc,          \* where the running decode is
    mode,        \* Container's visitor: "map" or "seq" ("none" outside)
    pending,     \* entries or elements of the document not read yet
    options,     \* Container's field slot: Option<Options>
    input,       \* the value string_or_struct was called on
    result,      \* what string_or_struct returned
    parserArgs,  \* the arguments T's FromStr was called with
    trace,       \* the calls made during the decode, in order
    docResult,   \* what the top-level decode returned
    ref          \* an earlier finished decode, remembered for comparison

vars == <<doc, calls, pc, mode, pending, options, input, result, parserArgs, trace,
          docResult, ref>>

Init ==
    /\ doc = <<>>
    /\ calls = 0
    /\ pc = "idle"
    /\ mode = "none"
    /\ pending = <<>>
    /\ options = None
    /\ input = Null
    /\ result = Pending
    /\ parserArgs = <<>>
    /\ trace = <<>>
    /\ docResult = Pending
    /\ ref = None

(***************************************************************************)
(* tests::Container { #[serde(deserialize_with = "string_or_struct")]      *)
(*                    options: Options }                                   *)
(***************************************************************************)
\* serde_json::from_str::<Container>(&container_json) up to the call of
\* Container's visitor.
Decode ==
    /\ pc = "idle"
    /\ calls < MaxCalls
    /\ \E d \in Documents :
         LET p == ParseJson(d) IN
         /\ doc' = d
         /\ IF ~p.ok
            THEN /\ docResult' = Err(p.err)
                 /\ pc' = "done"
                 /\ UNCHANGED <<mode, pending>>
            ELSE IF p.v.t \in {"map", "seq"}
            THEN /\ mode' = p.v.t
                 /\ pending' = p.v.e
                 /\ pc' = "container"
                 /\ UNCHANGED docResult
            ELSE /\ docResult' = Err(invalid_type(p.v, "struct Container"))
                 /\ pc' = "done"
                 /\ UNCHANGED <<mode, pending>>
    /\ calls' = calls + 1
    /\ UNCHANGED <<options, input, result, parserArgs, trace, ref>>

\* one step of Container's derived visit_map / visit_seq
ContainerVisit ==
    /\ pc = "container"
    /\ LET finish(r) == /\ docResult' = r
                        /\ pc' = "done"
                        /\ UNCHANGED <<pending, input>>
           call(v)   == /\ input' = v
                        /\ pending' = Tail(pending)
                        /\ pc' = "string_or_struct"
                        /\ UNCHANGED docResult
       IN
       IF mode = "map"
       THEN IF pending = <<>>
            THEN IF options = None THEN finish(Err(missing_field("options")))
                 ELSE finish(Ok([options |-> options[1]]))
            ELSE IF Head(pending).k = optionsKey
            THEN IF options # None THEN finish(Err(duplicate_field("options")))
                 ELSE call(Head(pending).v)
            ELSE /\ pending' = Tail(pending)
                 /\ UNCHANGED <<pc, input, docResult>>
       ELSE IF options = None
            THEN IF pending = <<>>
                 THEN finish(Err(invalid_length(0, "struct Container with 1 element")))
                 ELSE call(Head(pending))
            ELSE IF pending # <<>>
                 THEN finish(Err(JsonError("TrailingCharacters", <<"trailing characters">>, 0)))
                 ELSE finish(Ok([options |-> options[1]]))
    /\ UNCHANGED <<doc, calls, mode, options, result, parserArgs, trace, ref>>

\* variant: a field that fails to decode is given an empty Options
FieldReturn_default ==
    /\ pc = "returned"
    /\ options' = Some(IF IsOk(result) THEN result[2] ELSE [opt1 |-> <<>>, opt2 |-> None])
    /\ pc' = "container"
    /\ UNCHANGED <<doc, calls, mode, pending, input, result, parserArgs, trace, docResult, ref>>

\* the field's deserialize_with call has returned: `?` in Container's visitor
FieldReturn ==
    /\ pc = "returned"
    /\ IF IsOk(result)
       THEN /\ options' = Some(result[2])
            /\ pc' = "container"
            /\ UNCHANGED docResult
       ELSE /\ docResult' = result
            /\ pc' = "done"
            /\ UNCHANGED options
    /\ UNCHANGED <<doc, calls, mode, pending, input, result, parserArgs, trace, ref>>

(***************************************************************************)
(* string_or_struct                                                        *)
(***************************************************************************)
\* Visitor::expecting of StringOrStruct
expecting == "string or map"

\* the value handed to T's FromStr, with what it returned
from_str_call(value) == [arg |-> value, ret |-> Options_from_str(value)]

RECURSIVE TrimStart(_)
TrimStart(cs) == IF cs # <<>> /\ Head(cs) = " " THEN TrimStart(Tail(cs)) ELSE cs

RECURSIVE TrimEnd(_)
TrimEnd(cs) ==
    IF cs # <<>> /\ cs[Len(cs)] = " " THEN TrimEnd(SubSeq(cs, 1, Len(cs) - 1)) ELSE cs

\* variant: str::trim before parsing
visit_str_trimmed(value) ==
    LET c == from_str_call(TrimEnd(TrimStart(value))) IN
    [args |-> <<c.arg>>, ret |-> (IF IsErr(c.ret) THEN Err(custom(Display(c.ret[2]))) ELSE c.ret)]

\* variant: the parser's error replaced by a fixed message
visit_str_opaque(value) ==
    LET c == from_str_call(value) IN
    [args |-> <<c.arg>>,
     ret |-> IF IsErr(c.ret) THEN Err(custom([text |-> <<"invalid value">>, col |-> 0]))
             ELSE c.ret]

\* variant: a visitor kept across calls that works for the first decode only
visit_str_once(value) ==
    LET c == from_str_call(value) IN
    IF calls > 1
    THEN [args |-> <<>>, ret |-> Err(custom([text |-> <<"visitor already used">>, col |-> 0]))]
    ELSE [args |-> <<c.arg>>, ret |-> (IF IsErr(c.ret) THEN Err(custom(Display(c.ret[2]))) ELSE c.ret)]

\* StringOrStruct::visit_str: FromStr::from_str(value).map_err(de::Error::custom)
visit_str(value) ==
    LET c == from_str_call(value) IN
    [args |-> <<c.arg>>, ret |-> (IF IsErr(c.ret) THEN Err(custom(Display(c.ret[2]))) ELSE c.ret)]

\* variant: a failure of T's decoder reported as a failure of the visitor
visit_map_reshaped(entries) ==
    LET r == Options_deserialize(MapAccessDeserializer(entries)) IN
    IF IsErr(r) THEN Err(invalid_type(Obj(entries), expecting)) ELSE r

\* StringOrStruct::visit_map
visit_map(entries) == Options_deserialize(MapAccessDeserializer(entries))

\* variant: every other shape handed to T's Deserialize
visit_default_forward(v) == Options_deserialize(JsonDeserializer(v))

\* the visit_* methods StringOrStruct does not define keep the Visitor
\* trait's default: Err(Error::invalid_type(unexpected, &self))
visit_default(v) == Err(invalid_type(v, expecting))

VisitorOf(method) ==
    CASE method = "visit_str" -> "visit_str"
      [] method = "visit_map" -> "visit_map"
      [] OTHER -> "visit_other"

\* deserializer.deserialize_any(StringOrStruct(PhantomData))
StringOrStruct ==
    /\ pc = "string_or_struct"
    /\ pc' = VisitorOf(deserialize_any(JsonDeserializer(input)))
    /\ trace' = trace \o <<"string_or_struct", "deserialize_any">>
    /\ UNCHANGED <<doc, calls, mode, pending, options, input, result, parserArgs,
                   docResult, ref>>

\* variant: a string the parser rejects is retried as a map
VisitStr_fallback ==
    /\ pc = "visit_str"
    /\ IF IsErr(visit_str(input.s).ret)
       THEN /\ pc' = "visit_map"
            /\ UNCHANGED result
       ELSE /\ pc' = "returned"
            /\ result' = visit_str(input.s).ret
    /\ parserArgs' = parserArgs \o visit_str(input.s).args
    /\ trace' = trace \o <<"visit_str", "from_str", "deserialize">>
    /\ UNCHANGED <<doc, calls, mode, pending, options, input, docResult, ref>>

\* variant: a string holding a JSON string is decoded again by string_or_struct
VisitStr_reenter ==
    /\ pc = "visit_str"
    /\ parserArgs' = parserArgs \o visit_str(input.s).args
    /\ trace' = trace \o <<"visit_str", "from_str", "deserialize">>
    /\ IF ParseJson(input.s).ok /\ ParseJson(input.s).v.t = "str"
       THEN /\ input' = ParseJson(input.s).v
            /\ pc' = "string_or_struct"
            /\ UNCHANGED result
       ELSE /\ result' = visit_str(input.s).ret
            /\ pc' = "returned"
            /\ UNCHANGED input
    /\ UNCHANGED <<doc, calls, mode, pending, options, docResult, ref>>

VisitStr ==
    /\ pc = "visit_str"
    /\ result' = visit_str(input.s).ret
    /\ parserArgs' = parserArgs \o visit_str(input.s).args
    /\ trace' = trace \o <<"visit_str", "from_str", "deserialize">>
    /\ pc' = "returned"
    /\ UNCHANGED <<doc, calls, mode, pending, options, input, docResult, ref>>

VisitMap ==
    /\ pc = "visit_map"
    /\ result' = visit_map(input.e)
    /\ trace' = trace \o <<"visit_map", "deserialize">>
    /\ pc' = "returned"
    /\ UNCHANGED <<doc, calls, mode, pending, options, input, parserArgs, docResult, ref>>

VisitOther ==
    /\ pc = "visit_other"
    /\ result' = visit_default(input)
    /\ trace' = Append(trace, "visit_other")
    /\ pc' = "returned"
    /\ UNCHANGED <<doc, calls, mode, pending, options, input, parserArgs, docResult, ref>>

(***************************************************************************)
(* The caller has the result; the next decode starts from nothing.         *)
(***************************************************************************)
Finish ==
    /\ pc = "done"
    /\ \/ ref' = ref
       \/ /\ ref = None
          /\ ref' = Some([at |-> calls, doc |-> doc, input |-> input,
                          result |-> result, docResult |-> docResult])
    /\ doc' = <<>>
    /\ pc' = "idle"
    /\ mode' = "none"
    /\ pending' = <<>>
    /\ options' = None
    /\ input' = Null
    /\ result' = Pending
    /\ parserArgs' = <<>>
    /\ trace' = <<>>
    /\ docResult' = Pending
    /\ UNCHANGED calls

Step == ContainerVisit \/ StringOrStruct \/ VisitStr \/ VisitMap \/ VisitOther
            \/ FieldReturn

Next == Decode \/ Step \/ Finish

Spec == Init /\ [][Next]_vars

\* a decode that has started runs to its end: the code is one synchronous call
FairSpec == Spec /\ WF_vars(Step)

(***************************************************************************)
(* Properties.  `result # Pending` says that the string_or_struct call of  *)
(* the running decode has returned; `input` is the value it was called on. *)
(***************************************************************************)
Count(seq, x) == Cardinality({i \in DOMAIN seq : seq[i] = x})

Mentions(err, word) == \E i \in DOMAIN err.msg.text : err.msg.text[i] = word

\* T's own structured-decode routine run on the value as the framework
\* presents it, without string_or_struct in between
DirectDecode(v) == Options_deserialize(JsonDeserializer(v))

\* the failure kinds of the error taxonomy
IsUnsupportedShape(err) ==
    /\ err.code = "Message"
    /\ err.msg.text[1] = "invalid type: "
    /\ err.msg.text[Len(err.msg.text)] = "string or map"

IsStringParseFailure(err, s) ==
    /\ IsErr(Options_from_str(s))
    /\ err.code = "Message"
    /\ err.msg = Display(Options_from_str(s)[2])

\* a map that fits Options: opt1 once and a string, opt2 at most once and a
\* string or null, any other keys
MatchesSchema(v) ==
    /\ v.t = "map"
    /\ Cardinality({i \in DOMAIN v.e : v.e[i].k = opt1}) = 1
    /\ Cardinality({i \in DOMAIN v.e : v.e[i].k = opt2}) <= 1
    /\ \A i \in DOMAIN v.e :
         /\ v.e[i].k = opt1 => v.e[i].v.t = "str"
         /\ v.e[i].k = opt2 => v.e[i].v.t \in {"str", "null"}

StringPathEquivalence ==
    (result # Pending /\ input.t = "str" /\ IsOk(Options_from_str(input.s)))
        => /\ IsOk(result)
           /\ result = Options_from_str(input.s)
           /\ parserArgs = <<input.s>>

\* a string with blanks around the JSON text has been decoded
StringPathEquivalenceWitness ==
    /\ pc = "returned"
    /\ input = Str(<<" ">> \o Serialize(BothFields) \o <<" ">>)
    /\ result = Ok([opt1 |-> val1, opt2 |-> Some(val2)])
    /\ parserArgs = <<input.s>>

\* C3: on a value that is neither a string nor a map, string_or_struct fails
\* with Unsupported Shape, the message names "string or map", and neither
\* FromStr nor Deserialize of Options has been called.
UnsupportedShape ==
    (result # Pending /\ input.t \notin {"str", "map"})
        => /\ IsErr(result)
           /\ IsUnsupportedShape(result[2])
           /\ Mentions(result[2], "string or map")
           /\ parserArgs = <<>>
           /\ Count(trace, "from_str") = 0
           /\ Count(trace, "deserialize") = 0

\* a sequence that Options' Deserialize accepts directly has been refused
UnsupportedShapeWitness ==
    /\ pc = "returned"
    /\ input = Arr(<<Str(val1), Str(val2)>>)
    /\ IsOk(DirectDecode(input))
    /\ IsErr(result)

\* C4: on a string that Options' FromStr rejects, string_or_struct fails with
\* a String-Parse Failure that carries the parser's error text; it is not an
\* Unsupported Shape and the map path has not run.
InvalidString ==
    (result # Pending /\ input.t = "str" /\ IsErr(Options_from_str(input.s)))
        => /\ IsErr(result)
           /\ IsStringParseFailure(result[2], input.s)
           /\ ~IsUnsupportedShape(result[2])
           /\ Count(trace, "visit_map") = 0

\* "not really json you know" has been refused with the parser's text
InvalidStringWitness ==
    /\ pc = "returned"
    /\ input = Str(NotJson)
    /\ result = Err(custom([text |-> <<"expected ident">>, col |-> 2]))

\* C5: once string_or_struct has failed on the field, the decode of the
\* document stops there and fails: no value is put in the field's slot, the
\* field is not decoded again, and the top-level result is a failure.
AtomicFailure ==
    IsErr(result)
        => /\ pc \in {"returned", "done"}
           /\ options = None
           /\ Count(trace, "string_or_struct") = 1
           /\ pc = "done" => IsErr(docResult)

\* the document whose first "options" is a bad string and whose second is a
\* good map has failed
AtomicFailureWitness ==
    /\ pc = "done"
    /\ doc = Serialize(Obj(<<Entry(optionsKey, Str(NotJson)), Entry(optionsKey, BothFields)>>))
    /\ IsErr(result)
    /\ docResult = result

\* C6: on a map that Options' Deserialize rejects, string_or_struct returns
\* that failure as it is: not an Unsupported Shape, and FromStr has not been
\* called.
MapPathErrorForwarding ==
    (result # Pending /\ input.t = "map" /\ IsErr(DirectDecode(input)))
        => /\ IsErr(result)
           /\ result[2] = DirectDecode(input)[2]
           /\ ~IsUnsupportedShape(result[2])
           /\ parserArgs = <<>>
           /\ Count(trace, "visit_str") = 0

\* a map without the required field has been refused with the decoder's
\* own message
MapPathErrorForwardingWitness ==
    /\ pc = "returned"
    /\ input = Obj(<<Entry(opt2, Str(val2))>>)
    /\ result = Err(missing_field("opt1"))

\* C7: for a map that fits Options, the map and the string holding its JSON
\* text both decode, to equal values, whichever of the two is decoded first.
SurfaceFormIndependence ==
    \A i \in DOMAIN ref :
        /\ (result # Pending /\ MatchesSchema(ref[i].input)
                /\ input = Str(Serialize(ref[i].input)))
              => (IsOk(result) /\ IsOk(ref[i].result) /\ result = ref[i].result)
        /\ (result # Pending /\ MatchesSchema(input)
                /\ ref[i].input = Str(Serialize(input)))
              => (IsOk(result) /\ IsOk(ref[i].result) /\ result = ref[i].result)

\* the map form was decoded earlier, the string form now, with the values of
\* the tests
SurfaceFormIndependenceWitness ==
    /\ pc = "returned"
    /\ ref # None
    /\ ref[1].input = BothFields
    /\ input = Str(Serialize(BothFields))
    /\ result = Ok([opt1 |-> val1, opt2 |-> Some(val2)])
    /\ ref[1].result = result

SingleDispatch ==
    /\ Count(trace, "deserialize_any") <= 1
    /\ Count(trace, "visit_str") + Count(trace, "visit_map") + Count(trace, "visit_other") <= 1
    /\ Count(trace, "visit_str") = 1 => input.t = "str"
    /\ Count(trace, "visit_map") = 1 => input.t = "map"
    /\ result # Pending
         => /\ IsOk(result) \/ IsErr(result)
            /\ IsOk(result) => /\ DOMAIN result[2] = {"opt1", "opt2"}
                               /\ Len(result[2].opt2) <= 1
            /\ input.t = "str" => Count(trace, "visit_str") = 1
            /\ input.t = "map" => Count(trace, "visit_map") = 1
            /\ input.t \notin {"str", "map"}
                 => Count(trace, "visit_str") + Count(trace, "visit_map") = 0
    /\ pc = "returned" => result # Pending

\* the string path has failed and the call has returned that failure
SingleDispatchWitness ==
    /\ pc = "returned"
    /\ input.t = "str"
    /\ IsErr(result)
    /\ trace = <<"string_or_struct", "deserialize_any", "visit_str", "from_str", "deserialize">>

\* C10: every call of string_or_struct returns, and during one decode
\* string_or_struct, FromStr and Deserialize of Options are each entered at
\* most once.
Termination ==
    /\ [](/\ Count(trace, "string_or_struct") <= 1
          /\ Count(trace, "from_str") <= 1
          /\ Count(trace, "deserialize") <= 1)
    /\ (pc = "string_or_struct") ~> (pc = "returned" /\ result # Pending)

\* a string whose content is again a quoted string has been decoded in one
\* pass
TerminationWitness ==
    /\ pc = "returned"
    /\ input = Str(Serialize(Str(val1)))
    /\ IsErr(result)
    /\ Count(trace, "string_or_struct") = 1
    /\ Count(trace, "deserialize") = 1

====
